---- MODULE Spec2Model ----
(***************************************************************************)
(* Confidence fusion and decision engine of luxury-hunterAI.               *)
(*                                                                         *)
(* Modelled code:                                                          *)
(*   src/brand-detectors.js   BrandDetectors: detectBrand, the three       *)
(*                            per-method rankers, combineDetectionResults, *)
(*                            findBestMatch                                *)
(*   src/unnamed/part_000     LuxuryMatcher: extractFeatures,              *)
(*                            authenticateItem, calculateFeatureScore,     *)
(*                            identifyModel                                *)
(*   src/index.js             POST /api/authenticate                       *)
(*   src/unnamed/part_001     MarketplaceIntegration: getMarketPrices,     *)
(*                            searchAllMarketplaces, aggregateMarketData,  *)
(*                            compareAllMarketplaces                       *)
(*                                                                         *)
(* The image-analysis helpers (edge detection, colour distance, texture    *)
(* moments, symmetry ...) are signal producers: each yields one scalar in  *)
(* [0,1] per call, or fails.  Their numerics are not modelled; what they    *)
(* return is drawn from Levels / FeatureLevels.                            *)
(*                                                                         *)
(* Numbers.  Every score in the code is a JavaScript Number, a binary      *)
(* floating-point value whose every operation rounds to nearest, ties to   *)
(* even.  The model keeps that arithmetic and scales the significand from  *)
(* 53 bits down to Precision bits.  A Number is a pair <<n, d>> standing   *)
(* for n/d with d a power of two, in lowest terms; NaN is <<0, 0>>.        *)
(* Only non-negative values occur in the modelled code.                    *)
(***************************************************************************)
EXTENDS Integers, Sequences, FiniteSets, TLC

\* ------------------------------------------------------------------ bounds
\* Bits of significand of a Number (53 in the real arithmetic).  5 has the
\* same residue mod 4 as 53, so 0.2, 0.3, 0.6 and 0.85, whose binary
\* expansions have period 4, round in the same direction as they do in
\* double precision.
Precision == 5

\* Signal producers of brand detection return multiples of 1/Grid.
Grid == 4

\* Signal producers of item authentication return multiples of 1/FeatureGrid.
FeatureGrid == 2

\* ------------------------------------------------- floating-point Numbers
NaN == <<0, 0>>

IsNaN(x) == x[2] = 0

RECURSIVE Reduce(_, _)
\* n/d in lowest terms, for d a power of two.
Reduce(n, d) ==
  IF n = 0 THEN <<0, 1>>
  ELSE IF d > 1 /\ n % 2 = 0 THEN Reduce(n \div 2, d \div 2)
  ELSE <<n, d>>

RECURSIVE Shift(_, _, _)
\* The least k with n * 2^k >= 2^(Precision-1) * d; the values met here are
\* all below 2^Precision, so k >= 0.
Shift(n, d, k) ==
  IF n * (2 ^ k) >= (2 ^ (Precision - 1)) * d THEN k ELSE Shift(n, d, k + 1)

\* The Number nearest to the rational n/d (n >= 0, d > 0): Precision
\* significant bits, round to nearest, ties to even.
Fl(n, d) ==
  IF n = 0 THEN <<0, 1>>
  ELSE LET k == Shift(n, d, 0)
           q == (n * (2 ^ k)) \div d
           r == (n * (2 ^ k)) % d
           m == IF 2 * r > d \/ (2 * r = d /\ q % 2 = 1) THEN q + 1 ELSE q
       IN  Reduce(m, 2 ^ k)

\* a + b
FAdd(a, b) ==
  IF IsNaN(a) \/ IsNaN(b) THEN NaN
  ELSE Fl(a[1] * b[2] + b[1] * a[2], a[2] * b[2])

\* a * b
FMul(a, b) ==
  IF IsNaN(a) \/ IsNaN(b) THEN NaN
  ELSE Fl(a[1] * b[1], a[2] * b[2])

\* a / b; every division in the modelled code is guarded by b > 0, and 0/0
\* is NaN.
FDiv(a, b) ==
  IF IsNaN(a) \/ IsNaN(b) \/ b[1] = 0 THEN NaN
  ELSE Fl(a[1] * b[2], a[2] * b[1])

\* a > b, a >= b, a === b: every comparison with NaN is false.
FGt(a, b) == ~IsNaN(a) /\ ~IsNaN(b) /\ a[1] * b[2] > b[1] * a[2]

FGe(a, b) == ~IsNaN(a) /\ ~IsNaN(b) /\ a[1] * b[2] >= b[1] * a[2]

FEq(a, b) == ~IsNaN(a) /\ ~IsNaN(b) /\ a[1] * b[2] = b[1] * a[2]

Zero == <<0, 1>>

One == <<1, 1>>

\* A Number that is finite and lies in [0,1].
InUnitInterval(x) == ~IsNaN(x) /\ x[1] >= 0 /\ x[1] <= x[2]

\* What the brand-detection producers can return.  The threshold value 0.6
\* itself is among them so that the boundary of the decision is exercised.
Levels == {Fl(k, Grid) : k \in 0..Grid} \cup {Fl(6, 10)}

\* ---------------------------------------------------------------- registry
Unknown == "Unknown"

\* The registry with the sentinel 'Unknown' listed as a brand.
supportedBrands_WithUnknown ==
  << "Louis Vuitton", "Gucci", "Chanel", "Hermes", "Prada", "Dior", "Fendi",
     "Bottega Veneta", "Saint Laurent", "Balenciaga", "Celine", "Loewe",
     "Unknown" >>

supportedBrands ==
  << "Louis Vuitton", "Gucci", "Chanel", "Hermes", "Prada", "Dior", "Fendi",
     "Bottega Veneta", "Saint Laurent", "Balenciaga", "Celine", "Loewe" >>

\* The keys of brandPatterns after initializeBrandPatterns.
brandPatterns == {"Louis Vuitton", "Gucci", "Chanel", "Hermes", "Prada"}

Methods == <<"logo", "colors", "patterns">>

\* The position of brand b in the registry (0 when b is not a member).
RegistryIndex(b) ==
  IF \E i \in 1..Len(supportedBrands) : supportedBrands[i] = b
  THEN CHOOSE i \in 1..Len(supportedBrands) : supportedBrands[i] = b
  ELSE 0

\* ------------------------------------------------------------ JS Map
\* A Map is the sequence of its <<key, value>> entries in insertion order,
\* which is the order `for (const [k, v] of map)` visits them.
MapHas(m, k) == \E i \in 1..Len(m) : m[i][1] = k

MapGet(m, k) == m[CHOOSE i \in 1..Len(m) : m[i][1] = k][2]

MapSet(m, k, v) ==
  IF MapHas(m, k)
  THEN [i \in 1..Len(m) |-> IF m[i][1] = k THEN <<k, v>> ELSE m[i]]
  ELSE Append(m, <<k, v>>)

MapKeys(m) == {m[i][1] : i \in 1..Len(m)}

\* ------------------------------------------------------------ findBestMatch
RECURSIVE BestFrom(_, _, _)
\* The loop of findBestMatch from entry i on, with the best found so far.
BestFrom(resultsMap, i, best) ==
  IF i > Len(resultsMap) THEN best
  ELSE BestFrom(resultsMap, i + 1,
                IF FGt(resultsMap[i][2], best.score)
                THEN [brand |-> resultsMap[i][1], score |-> resultsMap[i][2]]
                ELSE best)

RECURSIVE BestFromLastTie(_, _, _)
BestFromLastTie(resultsMap, i, best) ==
  IF i > Len(resultsMap) THEN best
  ELSE BestFromLastTie(resultsMap, i + 1,
                IF FGe(resultsMap[i][2], best.score)
                THEN [brand |-> resultsMap[i][1], score |-> resultsMap[i][2]]
                ELSE best)

\* findBestMatch with `score >= bestScore`: a later entry displaces an
\* earlier one of the same score.
findBestMatch_LastTie(resultsMap) ==
  BestFromLastTie(resultsMap, 1, [brand |-> Unknown, score |-> Zero])

RECURSIVE BestFromZeroBaseline(_, _, _)
BestFromZeroBaseline(resultsMap, i, best) ==
  IF i > Len(resultsMap) THEN best
  ELSE BestFromZeroBaseline(resultsMap, i + 1,
                IF FGt(resultsMap[i][2], Zero)
                THEN [brand |-> resultsMap[i][1], score |-> resultsMap[i][2]]
                ELSE best)

\* findBestMatch with `score > 0`: every entry above zero displaces the best
\* found so far.
findBestMatch_ZeroBaseline(resultsMap) ==
  BestFromZeroBaseline(resultsMap, 1, [brand |-> Unknown, score |-> Zero])

findBestMatch(resultsMap) ==
  BestFrom(resultsMap, 1, [brand |-> Unknown, score |-> Zero])

\* ------------------------------------------------------ per-method rankers
\* What one signal producer (matchLogoPatterns, calculateColorSimilarity,
\* analyzeTexturePatterns) returns for each brand it is asked about; a
\* producer that fails for a brand returns 0 for it.
Producers == [brandPatterns -> Levels]

RECURSIVE ScoreBrands(_, _, _)
\* The loop `for (const brand of this.supportedBrands)` of a ranker from
\* registry position i on: a brand without patterns is skipped.
ScoreBrands(producer, i, results) ==
  IF i > Len(supportedBrands) THEN results
  ELSE IF supportedBrands[i] \notin brandPatterns
       THEN ScoreBrands(producer, i + 1, results)
       ELSE ScoreBrands(producer, i + 1,
                        MapSet(results, supportedBrands[i],
                               producer[supportedBrands[i]]))

\* The vote a ranker returns (allScores, a copy of the scored Map, is not
\* read by the decision pipeline and is left out of the record).
MethodVote(method, producer) ==
  LET results == ScoreBrands(producer, 1, << >>)
      bestMatch == findBestMatch(results)
  IN  [method |-> method, brand |-> bestMatch.brand,
       confidence |-> bestMatch.score]

detectLogo(producer) == MethodVote("logo", producer)

detectBrandColors(producer) == MethodVote("colors", producer)

detectBrandPatterns(producer) == MethodVote("patterns", producer)

\* Every vote each ranker can return, over all producer outputs.
LogoVotes == {detectLogo(p) : p \in Producers}

ColorVotes == {detectBrandColors(p) : p \in Producers}

PatternVotes == {detectBrandPatterns(p) : p \in Producers}

\* --------------------------------------------------- combineDetectionResults
weights == [logo |-> Fl(1, 2), colors |-> Fl(3, 10), patterns |-> Fl(2, 10)]

\* AggregateBrand dividing by the weights of all three methods, whoever
\* voted for the brand.
AggregateBrand_NoRenormalization(brand, logoResult, colorResult, patternResult) ==
  LET s1 == IF logoResult.brand = brand
            THEN FAdd(Zero, FMul(logoResult.confidence, weights.logo)) ELSE Zero
      s2 == IF colorResult.brand = brand
            THEN FAdd(s1, FMul(colorResult.confidence, weights.colors)) ELSE s1
      s3 == IF patternResult.brand = brand
            THEN FAdd(s2, FMul(patternResult.confidence, weights.patterns))
            ELSE s2
  IN  [totalScore |-> s3,
       totalWeight |-> FAdd(FAdd(FAdd(Zero, weights.logo), weights.colors),
                            weights.patterns)]

\* AggregateBrand adding weights.patterns to totalWeight in every block.
AggregateBrand_PatternWeight(brand, logoResult, colorResult, patternResult) ==
  LET s1 == IF logoResult.brand = brand
            THEN FAdd(Zero, FMul(logoResult.confidence, weights.logo)) ELSE Zero
      w1 == IF logoResult.brand = brand
            THEN FAdd(Zero, weights.patterns) ELSE Zero
      s2 == IF colorResult.brand = brand
            THEN FAdd(s1, FMul(colorResult.confidence, weights.colors)) ELSE s1
      w2 == IF colorResult.brand = brand
            THEN FAdd(w1, weights.patterns) ELSE w1
      s3 == IF patternResult.brand = brand
            THEN FAdd(s2, FMul(patternResult.confidence, weights.patterns))
            ELSE s2
      w3 == IF patternResult.brand = brand
            THEN FAdd(w2, weights.patterns) ELSE w2
  IN  [totalScore |-> s3, totalWeight |-> w3]

\* AggregateBrand adding the confidence to totalScore without its weight.
AggregateBrand_UnweightedScore(brand, logoResult, colorResult, patternResult) ==
  LET s1 == IF logoResult.brand = brand
            THEN FAdd(Zero, logoResult.confidence) ELSE Zero
      w1 == IF logoResult.brand = brand THEN FAdd(Zero, weights.logo) ELSE Zero
      s2 == IF colorResult.brand = brand
            THEN FAdd(s1, colorResult.confidence) ELSE s1
      w2 == IF colorResult.brand = brand THEN FAdd(w1, weights.colors) ELSE w1
      s3 == IF patternResult.brand = brand
            THEN FAdd(s2, patternResult.confidence) ELSE s2
      w3 == IF patternResult.brand = brand
            THEN FAdd(w2, weights.patterns) ELSE w2
  IN  [totalScore |-> s3, totalWeight |-> w3]

\* One iteration of the aggregation loop: totalScore and totalWeight of one
\* brand after the three `if (xResult.brand === brand)` blocks.
AggregateBrand(brand, logoResult, colorResult, patternResult) ==
  LET s0 == Zero
      w0 == Zero
      s1 == IF logoResult.brand = brand
            THEN FAdd(s0, FMul(logoResult.confidence, weights.logo)) ELSE s0
      w1 == IF logoResult.brand = brand THEN FAdd(w0, weights.logo) ELSE w0
      s2 == IF colorResult.brand = brand
            THEN FAdd(s1, FMul(colorResult.confidence, weights.colors)) ELSE s1
      w2 == IF colorResult.brand = brand THEN FAdd(w1, weights.colors) ELSE w1
      s3 == IF patternResult.brand = brand
            THEN FAdd(s2, FMul(patternResult.confidence, weights.patterns))
            ELSE s2
      w3 == IF patternResult.brand = brand
            THEN FAdd(w2, weights.patterns) ELSE w2
  IN  [totalScore |-> s3, totalWeight |-> w3]

RECURSIVE AggregateFrom(_, _, _, _, _)
\* The loop over supportedBrands that fills the brandScores Map.
AggregateFrom(i, scores, logoResult, colorResult, patternResult) ==
  IF i > Len(supportedBrands) THEN scores
  ELSE LET brand == supportedBrands[i]
           t == AggregateBrand(brand, logoResult, colorResult, patternResult)
       IN  AggregateFrom(i + 1,
             IF FGt(t.totalWeight, Zero)
             THEN MapSet(scores, brand, FDiv(t.totalScore, t.totalWeight))
             ELSE scores,
             logoResult, colorResult, patternResult)

BrandScores(logoResult, colorResult, patternResult) ==
  AggregateFrom(1, << >>, logoResult, colorResult, patternResult)

combineDetectionResults(logoResult, colorResult, patternResult) ==
  LET bestMatch ==
        findBestMatch(BrandScores(logoResult, colorResult, patternResult))
  IN  [brand |-> bestMatch.brand, confidence |-> bestMatch.score]

\* ------------------------------------------------------------- detectBrand
DetectionThreshold == Fl(6, 10)

\* detectBrand deciding `confidence >= 0.6`.
DetectBrandReturn_AtThreshold(detectionResults) ==
  [detected |-> FGe(detectionResults.confidence, DetectionThreshold),
   brand |-> detectionResults.brand,
   confidence |-> detectionResults.confidence,
   error |-> FALSE]

\* The object detectBrand returns on its normal path.
DetectBrandReturn(detectionResults) ==
  [detected |-> FGt(detectionResults.confidence, DetectionThreshold),
   brand |-> detectionResults.brand,
   confidence |-> detectionResults.confidence,
   error |-> FALSE]

\* The object the catch block of detectBrand returns.
DetectBrandCaught ==
  [detected |-> FALSE, brand |-> Unknown, confidence |-> Zero, error |-> TRUE]

\* -------------------------------------------------------- LuxuryMatcher
authenticityThreshold == Fl(85, 100)

\* What the image-analysis helpers of LuxuryMatcher can return.
FeatureLevels == {Fl(k, FeatureGrid) : k \in 0..FeatureGrid}

\* What calculateStitchConsistency can return: the levels, and the value the
\* stitching reason compares with.
StitchingLevels == FeatureLevels \cup {Fl(7, 10)}

Two == <<2, 1>>

\* `if (x)` on a Number: 0 and NaN are falsy.
Truthy(x) == ~IsNaN(x) /\ x[1] # 0

\* ToNumber of a quality label ('excellent', 'good', ...): a string that is
\* not a numeric literal converts to NaN.
LabelToNumber(label) == NaN

\* LuxuryMatcher.detectLogo: the fields of its result that the decision reads.
matcherDetectLogo(logoScore) ==
  [present |-> FGt(logoScore, Fl(6, 10)), quality |-> logoScore]

matcherDetectLogoCaught == [present |-> FALSE, quality |-> Zero]

analyzeStitching(consistency) == [consistency |-> consistency]

analyzeStitchingCaught == [consistency |-> Zero]

analyzeMaterial(materialType) ==
  [quality |-> IF materialType = "leather" THEN "genuine" ELSE "synthetic"]

analyzeMaterialCaught == [quality |-> "unknown"]

analyzeCraftsmanship(symmetryScore, alignmentScore) ==
  LET overallScore == FDiv(FAdd(symmetryScore, alignmentScore), Two)
  IN  [overall |-> IF FGt(overallScore, Fl(8, 10)) THEN "excellent"
                   ELSE IF FGt(overallScore, Fl(6, 10)) THEN "good"
                   ELSE "poor",
       precision |-> FGt(overallScore, Fl(7, 10))]

analyzeCraftsmanshipCaught == [overall |-> "unknown", precision |-> FALSE]

analyzeHardware(qualityScore) ==
  [quality |-> IF FGt(qualityScore, Fl(7, 10)) THEN "premium"
               ELSE IF FGt(qualityScore, Fl(4, 10)) THEN "standard"
               ELSE "poor"]

analyzeHardwareCaught == [quality |-> "unknown"]

\* Every object extractFeatures can return: each analyzer either computes its
\* entry from what its helpers return or fails and returns its catch value.
FeatureObjects ==
  [logoPresence :
     {matcherDetectLogo(x) : x \in FeatureLevels} \cup {matcherDetectLogoCaught},
   stitchingQuality :
     {analyzeStitching(x) : x \in StitchingLevels} \cup {analyzeStitchingCaught},
   materialTexture :
     {analyzeMaterial(t) : t \in {"leather", "synthetic"}}
       \cup {analyzeMaterialCaught},
   craftsmanship :
     {analyzeCraftsmanship(x, y) : x \in FeatureLevels, y \in FeatureLevels}
       \cup {analyzeCraftsmanshipCaught},
   hardwareQuality :
     {analyzeHardware(x) : x \in FeatureLevels} \cup {analyzeHardwareCaught}]

calculateFeatureScore(f) ==
  LET s1 == IF f.logoPresence.present
            THEN FAdd(Zero, FMul(f.logoPresence.quality, Fl(2, 10))) ELSE Zero
      n1 == IF f.logoPresence.present THEN 1 ELSE 0
      s2 == IF Truthy(f.stitchingQuality.consistency)
            THEN FAdd(s1, FMul(f.stitchingQuality.consistency, Fl(25, 100)))
            ELSE s1
      n2 == IF Truthy(f.stitchingQuality.consistency) THEN n1 + 1 ELSE n1
      s3 == IF f.materialTexture.quality = "genuine"
            THEN FAdd(s2, Fl(2, 10)) ELSE s2
      n3 == IF f.materialTexture.quality = "genuine" THEN n2 + 1 ELSE n2
      s4 == IF f.craftsmanship.precision
            THEN FAdd(s3, FMul(LabelToNumber(f.craftsmanship.overall),
                               Fl(2, 10)))
            ELSE s3
      n4 == IF f.craftsmanship.precision THEN n3 + 1 ELSE n3
      s5 == IF f.hardwareQuality.quality = "premium"
            THEN FAdd(s4, Fl(15, 100)) ELSE s4
      n5 == IF f.hardwareQuality.quality = "premium" THEN n4 + 1 ELSE n4
  IN  IF n5 > 0 THEN FDiv(s5, Fl(n5, 1)) ELSE Fl(5, 10)

\* modelMap of identifyModel; a brand without an entry gets ['Unknown Model'].
modelMap(b) ==
  CASE b = "Louis Vuitton" -> <<"Speedy", "Neverfull", "Alma", "Artsy">>
    [] b = "Gucci" -> <<"Dionysus", "Marmont", "Bamboo", "Jackie">>
    [] b = "Chanel" -> <<"Classic Flap", "Boy Bag", "2.55", "Gabrielle">>
    [] b = "Hermes" -> <<"Birkin", "Kelly", "Constance", "Evelyne">>
    [] OTHER -> <<"Unknown Model">>

\* identifyModel, given the index Math.floor(Math.random() * models.length)
\* (counted from 1 here).
identifyModel(b, index) == modelMap(b)[index]

\* What model.predict yields as confidence[0].  The generic model ends in a
\* sigmoid unit; a model loaded from disk has the output layer its file
\* declares, and 3/2 stands for an output outside [0,1].
ModelScores(kind) ==
  IF kind = "generic" THEN FeatureLevels ELSE FeatureLevels \cup {Fl(3, 2)}

\* The object authenticateItem returns.
ReasonIf(condition, reason) == IF condition THEN << reason >> ELSE << >>

\* getAuthenticityReasons with `consistency >= 0.7`.
getAuthenticityReasons_StitchingAtThreshold(f, score) ==
  ReasonIf(f.logoPresence.present /\ FGt(f.logoPresence.quality, Fl(7, 10)),
           "High-quality logo detected")
  \o ReasonIf(FGe(f.stitchingQuality.consistency, Fl(7, 10)),
              "Consistent, professional stitching")
  \o ReasonIf(f.craftsmanship.precision,
              "Precise craftsmanship and symmetry")
  \o ReasonIf(f.hardwareQuality.quality = "premium",
              "Premium hardware quality")
  \o ReasonIf(FGt(Fl(1, 2), score),
              "Multiple authenticity concerns detected")

\* getAuthenticityReasons: the reasons pushed, in the order of the pushes.
getAuthenticityReasons(f, score) ==
  ReasonIf(f.logoPresence.present /\ FGt(f.logoPresence.quality, Fl(7, 10)),
           "High-quality logo detected")
  \o ReasonIf(FGt(f.stitchingQuality.consistency, Fl(7, 10)),
              "Consistent, professional stitching")
  \o ReasonIf(f.craftsmanship.precision,
              "Precise craftsmanship and symmetry")
  \o ReasonIf(f.hardwareQuality.quality = "premium",
              "Premium hardware quality")
  \o ReasonIf(FGt(Fl(1, 2), score),
              "Multiple authenticity concerns detected")

AuthenticateReturn(f, mScore, modelName) ==
  LET featureScore == calculateFeatureScore(f)
      overallScore == FDiv(FAdd(featureScore, mScore), Two)
  IN  [threw |-> FALSE,
       authentic |-> FGe(overallScore, authenticityThreshold),
       confidence |-> overallScore,
       model |-> modelName,
       modelConfidence |-> mScore,
       featureScore |-> featureScore,
       reasons |-> getAuthenticityReasons(f, overallScore)]

\* authenticateItem rethrows what it catches; the fields are placeholders.
AuthenticateThrown ==
  [threw |-> TRUE, authentic |-> FALSE, confidence |-> Zero,
   model |-> "Unknown Model", modelConfidence |-> Zero, featureScore |-> Zero,
   reasons |-> << >>]

VARIABLES
  pc,               \* detectBrand: the statement it is about to execute
  logoDetection,    \* detectBrand: const logoDetection
  colorDetection,   \* detectBrand: const colorDetection
  patternDetection, \* detectBrand: const patternDetection
  brandScores,      \* combineDetectionResults: const brandScores
  detection,        \* the object detectBrand returned
  reported,         \* detectBrand: the methods whose await has resolved
  response,         \* POST /api/authenticate: the response sent
  reports,          \* what requests without a detected brand were answered
  invoked,          \* POST /api/authenticate: the calls made, in order
  responses,        \* POST /api/authenticate: responses sent for the request
  authentication,   \* POST /api/authenticate: const authentication
  rpc,              \* ranker under test: "input" or "ranked"
  outcomes,         \* ranker under test: how the producer's analysis ends per brand
  scores,           \* ranker under test: what the producer returns per brand
  rankerResults,    \* ranker under test: const results, the Map it fills
  vote,             \* ranker under test: the vote returned
  apc,              \* authenticateItem: the statement it is about to execute
  brand,            \* authenticateItem: its argument brand
  models,           \* LuxuryMatcher.models: brand -> kind of model cached
  features,         \* authenticateItem: const features
  modelScore,       \* authenticateItem: confidence[0]
  authResult,       \* what the latest call of authenticateItem returned
  firstResult,      \* what the first call for this item returned
  calls,            \* calls of authenticateItem completed for this item
  tensors,          \* authenticateItem: the tensors of its preprocessImage call
  mpc,              \* compareAllMarketplaces: the statement it is about to execute
  condition,        \* compareAllMarketplaces: its argument condition
  marketplaceResults, \* searchAllMarketplaces: const results, in search order
  marketData,       \* compareAllMarketplaces: const marketData
  priceComparison   \* what compareAllMarketplaces returned

vars == << pc, logoDetection, colorDetection, patternDetection, brandScores,
           detection, reported, response, reports, invoked, responses,
           authentication, rpc, outcomes, scores, rankerResults, vote, apc, brand, models,
           features,
           modelScore, authResult, firstResult, calls, tensors,
           mpc, condition, marketplaceResults, marketData, priceComparison >>

handlerVars == << invoked, responses, authentication >>

detectVars == << pc, logoDetection, colorDetection, patternDetection,
                 brandScores, detection, reported, response, reports,
                 handlerVars >>

rankVars == << rpc, outcomes, scores, rankerResults, vote >>

marketVars == << mpc, condition, marketplaceResults, marketData,
                 priceComparison >>

authVars == << apc, brand, models, features, modelScore, authResult,
               firstResult, calls, tensors >>

\* No response has been sent.
NoResponse == [status |-> 0, error |-> "", confidence |-> Zero]

\* res.status(400).json({ error: 'No image provided' })
NoImageResponse ==
  [status |-> 400, error |-> "No image provided", confidence |-> Zero]

\* res.status(400).json({ error: 'Unable to detect luxury brand',
\*                        confidence: brandDetection.confidence })
UndetectedResponse(brandDetection) ==
  [status |-> 400, error |-> "Unable to detect luxury brand",
   confidence |-> brandDetection.confidence]

\* res.status(500).json({ error: 'Internal server error during
\* authentication' })
ServerErrorResponse ==
  [status |-> 500, error |-> "Internal server error during authentication",
   confidence |-> Zero]

\* res.json({ brand, model, authentic, confidence, ... }): of the body only
\* confidence, which is authentication.confidence, is kept.
OkResponse(result) ==
  [status |-> 200, error |-> "", confidence |-> result.confidence]

NoVote(method) == [method |-> method, brand |-> Unknown, confidence |-> Zero]

DetectIdle ==
  /\ logoDetection = NoVote("logo")
  /\ colorDetection = NoVote("colors")
  /\ patternDetection = NoVote("patterns")
  /\ brandScores = << >>
  /\ detection = DetectBrandCaught
  /\ reported = {}
  /\ response = NoResponse
  /\ reports = {}
  /\ invoked = << >>
  /\ responses = 0
  /\ authentication = AuthenticateThrown

RankIdle ==
  /\ rpc = "off"
  /\ outcomes = [b \in brandPatterns |-> Zero]
  /\ scores = [b \in brandPatterns |-> Zero]
  /\ rankerResults = << >>
  /\ vote = NoVote("logo")

\* The brands authenticateItem is called with here.  The handler passes the
\* brand detectBrand reported, one of brandPatterns; of these, one brand with
\* an entry in modelMap and one without are followed.
AuthBrands == {"Louis Vuitton", "Prada"}

\* Calls of authenticateItem made for one item.
MaxCalls == 2

\* preprocessImage has not been called: neither tensor exists.
NoTensors == [normalized |-> "unallocated", batched |-> "unallocated"]

\* What preprocessImage returns: `return { normalized, batched }`, both live.
preprocessImage == [normalized |-> "allocated", batched |-> "allocated"]

NoFeatures ==
  [logoPresence |-> matcherDetectLogoCaught,
   stitchingQuality |-> analyzeStitchingCaught,
   materialTexture |-> analyzeMaterialCaught,
   craftsmanship |-> analyzeCraftsmanshipCaught,
   hardwareQuality |-> analyzeHardwareCaught]

AuthIdle ==
  /\ brand = "Louis Vuitton"
  /\ models = [b \in AuthBrands |-> "none"]
  /\ features = NoFeatures
  /\ modelScore = Zero
  /\ authResult = AuthenticateThrown
  /\ firstResult = AuthenticateThrown
  /\ calls = 0
  /\ tensors = NoTensors

\* ---- MarketplaceIntegration: searches, aggregation, comparison
\* The keys of this.marketplaces, in the order Object.entries visits them.
marketplaces ==
  << "TheRealReal", "Vestiaire Collective", "Fashionphile", "Rebag", "eBay" >>

\* Listings one search extracts at most (maxItems is 20 in the source).
MaxListings == 1

\* What extractItemData reads from a listing: condition as the page spells
\* it, price as parsePrice returns it.  searchMarketplace keeps a listing
\* only when its price is truthy, so no listing here has price 0 or null.
Listings ==
  {[price |-> 1, condition |-> "Used"], [price |-> 2, condition |-> "New"]}

\* The items of one search: listings tagged with their marketplace.
ItemsOf(marketplace) ==
  {[price |-> l.price, condition |-> l.condition, marketplace |-> marketplace]
     : l \in Listings}

\* searchMarketplace: the object it returns, from its try block (with
\* totalResults and without an error field) or from its catch block.
SearchFailed(marketplace) ==
  [marketplace |-> marketplace, error |-> "Request failed", results |-> << >>]

SearchReturns(marketplace) ==
  {SearchFailed(marketplace)} \cup
  {[marketplace |-> marketplace, totalResults |-> Len(r), results |-> r]
     : r \in UNION {[1..n -> ItemsOf(marketplace)] : n \in 0..MaxListings}}

\* Math.min(...prices) and Math.max(...prices) of a non-empty array.
MinPrice(prices) ==
  CHOOSE p \in {prices[i] : i \in 1..Len(prices)} :
    \A i \in 1..Len(prices) : p <= prices[i]

MaxPrice(prices) ==
  CHOOSE p \in {prices[i] : i \in 1..Len(prices)} :
    \A i \in 1..Len(prices) : p >= prices[i]

Prices(items) == [i \in 1..Len(items) |-> items[i].price]

\* calculatePriceStatistics, its range (the mean and the median are numbers
\* no branch of the comparison reads and are left out).
calculatePriceStatistics(prices) ==
  IF Len(prices) = 0
  THEN [range |-> [min |-> 0, max |-> 0]]
  ELSE [range |-> [min |-> MinPrice(prices), max |-> MaxPrice(prices)]]

\* aggregateMarketData: the loop over Object.entries(marketplaceResults)
\* from entry i on, with allItems and marketplaceSummary as filled so far.
\* A search that failed gets a summary with status 'error' and adds no item.
RECURSIVE AggregateMarkets(_, _, _, _)
AggregateMarkets(marketplaceResults_, i, allItems, marketplaceSummary) ==
  IF i > Len(marketplaceResults_)
  THEN [items |-> allItems, marketplaces |-> marketplaceSummary]
  ELSE LET data == marketplaceResults_[i]
           validItems == SelectSeq(data.results, LAMBDA item : item.price > 0)
       IN IF "error" \in DOMAIN data
          THEN AggregateMarkets(marketplaceResults_, i + 1, allItems,
                 Append(marketplaceSummary,
                        << data.marketplace,
                           [status |-> "error", count |-> 0] >>))
          ELSE AggregateMarkets(marketplaceResults_, i + 1,
                 allItems \o validItems,
                 Append(marketplaceSummary,
                        << data.marketplace,
                           [status |-> "success",
                            count |-> Len(validItems)] >>))

aggregateMarketData(marketplaceResults_) ==
  LET aggregated == AggregateMarkets(marketplaceResults_, 1, << >>, << >>)
  IN [prices |-> Prices(aggregated.items),
      items |-> aggregated.items,
      priceRange |-> calculatePriceStatistics(Prices(aggregated.items)).range,
      marketplaces |-> aggregated.marketplaces,
      totalItems |-> Len(aggregated.items)]

\* getMarketPrices, the object its try block returns: prices, priceRange and
\* marketplaces of the aggregated data.  It copies neither items nor
\* totalItems.  Its catch block is not reachable from here: each search
\* catches its own failure and aggregateMarketData reads only fields every
\* search result has.
getMarketPrices(marketplaceResults_) ==
  LET aggregatedData == aggregateMarketData(marketplaceResults_)
  IN [prices |-> aggregatedData.prices,
      priceRange |-> aggregatedData.priceRange,
      marketplaces |-> aggregatedData.marketplaces]

\* String.prototype.toLowerCase on the condition strings used here.
toLowerCase(s) ==
  CASE s = "Used" -> "used"
    [] s = "New" -> "new"
    [] OTHER -> s

\* String.prototype.includes on those strings: none of "used", "new" and
\* "all" is a part of another, so one includes the other only when equal.
includes(s, part) == s = part

\* The condition argument of compareAllMarketplaces ('used' by default).
Conditions == {"used", "new", "all"}

\* compareAllMarketplaces, the grouping loop: comparison[item.marketplace]
\* gets the item appended, a new key when the marketplace has none yet.
RECURSIVE GroupByMarketplace(_, _, _)
GroupByMarketplace(filteredItems, i, comparison) ==
  IF i > Len(filteredItems)
  THEN comparison
  ELSE LET item == filteredItems[i]
           items == IF MapHas(comparison, item.marketplace)
                    THEN MapGet(comparison, item.marketplace)
                    ELSE << >>
       IN GroupByMarketplace(filteredItems, i + 1,
            MapSet(comparison, item.marketplace, Append(items, item)))

\* compareAllMarketplaces, the statistics loop over the grouped items.
MarketplaceStatistics(comparison) ==
  [k \in 1..Len(comparison) |->
     LET items == comparison[k][2]
         prices == SelectSeq(Prices(items), LAMBDA p : p > 0)
     IN << comparison[k][1],
           [items |-> items, count |-> Len(items),
            range |-> calculatePriceStatistics(prices).range] >>]

\* compareAllMarketplaces, what its catch block returns.
ComparisonCaught(condition_) ==
  [condition |-> condition_, error |-> "TypeError", comparison |-> << >>]

\* compareAllMarketplaces on the object getMarketPrices resolved with.  It
\* reads marketData.items: when the object has no such field the value is
\* undefined, and both undefined.filter(...) (condition other than 'all')
\* and the for-of over undefined (condition 'all') throw a TypeError that
\* the catch block turns into the error result.
compareAllMarketplaces(marketData_, condition_) ==
  IF "items" \notin DOMAIN marketData_
  THEN ComparisonCaught(condition_)
  ELSE LET filteredItems ==
             IF condition_ # "all"
             THEN SelectSeq(marketData_.items,
                    LAMBDA item : includes(toLowerCase(item.condition),
                                           toLowerCase(condition_)))
             ELSE marketData_.items
       IN [condition |-> condition_,
           comparison |->
             MarketplaceStatistics(GroupByMarketplace(filteredItems, 1, << >>)),
           totalItems |-> Len(filteredItems)]

NoMarketData == [prices |-> << >>,
                 priceRange |-> [min |-> 0, max |-> 0],
                 marketplaces |-> << >>]

MarketIdle ==
  /\ mpc = "off"
  /\ condition = "used"
  /\ marketplaceResults = << >>
  /\ marketData = NoMarketData
  /\ priceComparison = ComparisonCaught("used")

\* ---- detectBrand, one action per await
\* preprocessForBrandDetection: resolves, or rejects (sharp cannot read the
\* file) and detectBrand returns from its catch block.
Preprocess ==
  /\ pc = "preprocess"
  /\ \/ /\ pc' = "detectLogo"
        /\ UNCHANGED detection
     \/ /\ pc' = "returned"
        /\ detection' = DetectBrandCaught
  /\ UNCHANGED << logoDetection, colorDetection, patternDetection,
                  brandScores, reported, response, reports, handlerVars, rankVars,
                  authVars, marketVars >>

DetectLogo ==
  /\ pc = "detectLogo"
  /\ \E v \in LogoVotes : logoDetection' = v
  /\ reported' = reported \cup {"logo"}
  /\ pc' = "detectBrandColors"
  /\ UNCHANGED << colorDetection, patternDetection, brandScores, detection,
                  response, reports, handlerVars, rankVars, authVars, marketVars >>

\* detectBrand going from the colour vote straight to fusion.
DetectBrandColors_SkipsPatterns ==
  /\ pc = "detectBrandColors"
  /\ \E v \in ColorVotes : colorDetection' = v
  /\ reported' = reported \cup {"colors"}
  /\ pc' = "combine"
  /\ UNCHANGED << logoDetection, patternDetection, brandScores, detection,
                  response, reports, handlerVars, rankVars, authVars, marketVars >>

DetectBrandColors ==
  /\ pc = "detectBrandColors"
  /\ \E v \in ColorVotes : colorDetection' = v
  /\ reported' = reported \cup {"colors"}
  /\ pc' = "detectBrandPatterns"
  /\ UNCHANGED << logoDetection, patternDetection, brandScores, detection,
                  response, reports, handlerVars, rankVars, authVars, marketVars >>

DetectBrandPatterns ==
  /\ pc = "detectBrandPatterns"
  /\ \E v \in PatternVotes : patternDetection' = v
  /\ reported' = reported \cup {"patterns"}
  /\ pc' = "combine"
  /\ UNCHANGED << logoDetection, colorDetection, brandScores, detection,
                  response, reports, handlerVars, rankVars, authVars, marketVars >>

\* combineDetectionResults called with the first two votes in each other's
\* place.
Combine_SwappedArguments ==
  /\ pc = "combine"
  /\ brandScores' = BrandScores(colorDetection, logoDetection, patternDetection)
  /\ detection' = DetectBrandReturn(
       combineDetectionResults(colorDetection, logoDetection, patternDetection))
  /\ pc' = "returned"
  /\ UNCHANGED << logoDetection, colorDetection, patternDetection, reported,
                  response, reports, handlerVars, rankVars, authVars, marketVars >>

\* combineDetectionResults and the return statement.
Combine ==
  /\ pc = "combine"
  /\ brandScores' = BrandScores(logoDetection, colorDetection, patternDetection)
  /\ detection' = DetectBrandReturn(
       combineDetectionResults(logoDetection, colorDetection, patternDetection))
  /\ pc' = "returned"
  /\ UNCHANGED << logoDetection, colorDetection, patternDetection, reported,
                  response, reports, handlerVars, rankVars, authVars, marketVars >>

\* ---- POST /api/authenticate around detectBrand
\* The handler's first statements: without an uploaded file it answers 400,
\* otherwise it calls detectBrand.
ReceiveRequest ==
  /\ pc = "request"
  /\ \/ /\ response' = NoImageResponse
        /\ responses' = responses + 1
        /\ pc' = "responded"
        /\ UNCHANGED invoked
     \/ /\ pc' = "preprocess"
        /\ invoked' = Append(invoked, "detectBrand")
        /\ UNCHANGED << response, responses >>
  /\ UNCHANGED << logoDetection, colorDetection, patternDetection,
                  brandScores, detection, reported, reports, authentication,
                  rankVars, authVars, marketVars >>

\* Whether a result without a detected brand had no usable evidence (brand
\* Unknown, confidence 0) or a scored brand at or below the threshold.
Evidence(brandDetection) ==
  IF brandDetection.brand = Unknown THEN "absent" ELSE "negative"

\* `if (!brandDetection.detected) return res.status(400).json(...)`;
\* otherwise the handler goes on to authenticateItem.  reports keeps, for
\* each kind of undetected result, the status and the message answered.
\* The handler without `return` in front of the 400 response: it answers
\* and goes on to authenticateItem.
AfterDetectBrand_NoReturn ==
  /\ pc = "returned"
  /\ IF ~detection.detected
     THEN /\ response' = UndetectedResponse(detection)
          /\ responses' = responses + 1
          /\ reports' = reports \cup
               {[evidence |-> Evidence(detection),
                 status |-> response'.status,
                 error |-> response'.error]}
     ELSE UNCHANGED << response, responses, reports >>
  /\ pc' = "authenticateItem"
  /\ invoked' = Append(invoked, "authenticateItem")
  /\ UNCHANGED << logoDetection, colorDetection, patternDetection,
                  brandScores, detection, reported, authentication, rankVars,
                  authVars, marketVars >>

AfterDetectBrand ==
  /\ pc = "returned"
  /\ IF ~detection.detected
     THEN /\ response' = UndetectedResponse(detection)
          /\ responses' = responses + 1
          /\ reports' = reports \cup
               {[evidence |-> Evidence(detection),
                 status |-> response'.status,
                 error |-> response'.error]}
          /\ pc' = "responded"
          /\ UNCHANGED invoked
     ELSE /\ pc' = "authenticateItem"
          /\ invoked' = Append(invoked, "authenticateItem")
          /\ UNCHANGED << response, responses, reports >>
  /\ UNCHANGED << logoDetection, colorDetection, patternDetection,
                  brandScores, detection, reported, authentication, rankVars,
                  authVars, marketVars >>

\* The records authenticateItem hands the handler.  What it can return is
\* followed in SpecAuth; here one record below the authenticity threshold
\* and one above it stand for them.
Authentications ==
  {AuthenticateReturn(NoFeatures, m, "Unknown Model") : m \in {Zero, Fl(3, 2)}}

\* `await luxuryMatcher.authenticateItem(...)`: it returns a record and the
\* handler calls getMarketPrices, or it throws and the handler's catch block
\* answers 500.
CallAuthenticateItem ==
  /\ pc = "authenticateItem"
  /\ \/ /\ \E a \in Authentications : authentication' = a
        /\ invoked' = Append(invoked, "getMarketPrices")
        /\ pc' = "getMarketPrices"
        /\ UNCHANGED << response, responses >>
     \/ /\ response' = ServerErrorResponse
        /\ responses' = responses + 1
        /\ pc' = "responded"
        /\ UNCHANGED << authentication, invoked >>
  /\ UNCHANGED << logoDetection, colorDetection, patternDetection,
                  brandScores, detection, reported, reports, rankVars,
                  authVars, marketVars >>

\* `await marketplaceIntegration.getMarketPrices(...)`, which returns from
\* its own catch block when a search fails, and `res.json({...})`.
CallGetMarketPrices ==
  /\ pc = "getMarketPrices"
  /\ response' = OkResponse(authentication)
  /\ responses' = responses + 1
  /\ pc' = "responded"
  /\ UNCHANGED << logoDetection, colorDetection, patternDetection,
                  brandScores, detection, reported, reports, invoked,
                  authentication, rankVars, authVars, marketVars >>

Init ==
  /\ pc = "request"
  /\ DetectIdle
  /\ RankIdle
  /\ apc = "off"
  /\ AuthIdle
  /\ MarketIdle

Next ==
  \/ ReceiveRequest
  \/ Preprocess
  \/ DetectLogo
  \/ DetectBrandColors
  \/ DetectBrandPatterns
  \/ Combine
  \/ AfterDetectBrand
  \/ CallAuthenticateItem
  \/ CallGetMarketPrices

Spec == Init /\ [][Next]_vars

\* ---- one request after another
\* The next request arrives: the handler starts again with fresh locals.
NewRequest ==
  /\ pc = "responded"
  /\ pc' = "request"
  /\ logoDetection' = NoVote("logo")
  /\ colorDetection' = NoVote("colors")
  /\ patternDetection' = NoVote("patterns")
  /\ brandScores' = << >>
  /\ detection' = DetectBrandCaught
  /\ reported' = {}
  /\ response' = NoResponse
  /\ invoked' = << >>
  /\ responses' = 0
  /\ authentication' = AuthenticateThrown
  /\ UNCHANGED << reports, rankVars, authVars, marketVars >>

NextHandler ==
  \/ Next
  \/ NewRequest

SpecHandler == Init /\ [][NextHandler]_vars

\* ---- detectBrand with a producer that may never respond
\* The promise a method awaits from its producer (matchLogoPatterns,
\* calculateColorSimilarity, analyzeTexturePatterns) never settles.  The await
\* has no timeout and no other continuation of the request is pending, so
\* detectBrand stays at that await.
ProducerNeverResponds ==
  /\ pc \in {"detectLogo", "detectBrandColors", "detectBrandPatterns"}
  /\ pc' = "awaiting"
  /\ UNCHANGED << logoDetection, colorDetection, patternDetection, brandScores,
                  detection, reported, response, reports, handlerVars, rankVars,
                  authVars, marketVars >>

NextLive ==
  \/ Next
  \/ ProducerNeverResponds

\* The statements of the request that run once the promise before them has
\* settled.
Runnable ==
  {"request", "preprocess", "detectLogo", "detectBrandColors",
   "detectBrandPatterns", "combine", "returned", "authenticateItem",
   "getMarketPrices"}

\* A step of the request: every step of NextLive moves pc from a statement of
\* Runnable, and at every such statement some step of NextLive is enabled.
Resumed ==
  /\ pc \in Runnable
  /\ pc' \in (Runnable \cup {"awaiting", "responded"}) \ {pc}

\* The event loop runs every continuation whose promise has settled: the
\* request does not stay for ever at a statement that can run.
SpecLive == Init /\ [][NextLive]_vars /\ WF_pc(Resumed)

\* ---- one ranker applied to one producer output
\* The analysis inside a producer threw (a tensor operation failed).
Thrown == << 0, -1 >>

\* How the analysis of a producer can end for each brand scored: with a level,
\* or thrown.
Outcomes == [brandPatterns -> Levels \cup {Thrown}]

\* matchLogoPatterns, calculateColorSimilarity and analyzeTexturePatterns:
\* each returns the score its analysis computed, and 0 from its catch block.
ProducerReturn(outcome) == IF outcome = Thrown THEN Zero ELSE outcome

\* A failure for one brand ending the whole loop of the ranker.
ScoredBy_FailureEndsLoop(outcome) ==
  IF \E b \in brandPatterns : outcome[b] = Thrown
  THEN [b \in brandPatterns |-> Zero]
  ELSE outcome

\* What the producer returns to the ranker's loop, brand by brand.
ScoredBy(outcome) == [b \in brandPatterns |-> ProducerReturn(outcome[b])]

RankLogo ==
  /\ rpc = "input"
  /\ scores' = ScoredBy(outcomes)
  /\ rankerResults' = ScoreBrands(scores', 1, << >>)
  /\ vote' = detectLogo(scores')
  /\ rpc' = "ranked"
  /\ UNCHANGED << outcomes, detectVars, authVars, marketVars >>

RankColors ==
  /\ rpc = "input"
  /\ scores' = ScoredBy(outcomes)
  /\ rankerResults' = ScoreBrands(scores', 1, << >>)
  /\ vote' = detectBrandColors(scores')
  /\ rpc' = "ranked"
  /\ UNCHANGED << outcomes, detectVars, authVars, marketVars >>

RankPatterns ==
  /\ rpc = "input"
  /\ scores' = ScoredBy(outcomes)
  /\ rankerResults' = ScoreBrands(scores', 1, << >>)
  /\ vote' = detectBrandPatterns(scores')
  /\ rpc' = "ranked"
  /\ UNCHANGED << outcomes, detectVars, authVars, marketVars >>

InitRank ==
  /\ pc = "off"
  /\ DetectIdle
  /\ rpc = "input"
  /\ outcomes \in Outcomes
  /\ scores = [b \in brandPatterns |-> Zero]
  /\ rankerResults = << >>
  /\ vote = NoVote("logo")
  /\ apc = "off"
  /\ AuthIdle
  /\ MarketIdle

NextRank == RankLogo \/ RankColors \/ RankPatterns

SpecRank == InitRank /\ [][NextRank]_vars

\* ---- authenticateItem, one action per await
\* this.models.get(brand), and loadModel when the brand has no model yet:
\* a trained model is found on disk, or createGenericModel builds one; both
\* store it in this.models.
LoadModel ==
  /\ apc = "loadModel"
  /\ IF models[brand] # "none"
     THEN UNCHANGED models
     ELSE \E kind \in {"trained", "generic"} :
            models' = [models EXCEPT ![brand] = kind]
  /\ apc' = "extractFeatures"
  /\ UNCHANGED << brand, features, modelScore, authResult, firstResult, calls,
                  tensors, detectVars, rankVars, marketVars >>

\* extractFeatures.  The analyzers are functions of the image: a later call
\* for the same item gets the same features.
ExtractFeatures ==
  /\ apc = "extractFeatures"
  /\ IF calls = 0
     THEN \E f \in FeatureObjects : features' = f
     ELSE UNCHANGED features
  /\ apc' = "predict"
  /\ UNCHANGED << brand, models, modelScore, authResult, firstResult, calls,
                  tensors, detectVars, rankVars, marketVars >>

\* preprocessImage and model.predict: the prediction is a function of the
\* image and the model; preprocessImage can also throw, and authenticateItem
\* then rethrows.
Predict ==
  /\ apc = "predict"
  /\ \/ /\ IF calls = 0
           THEN \E m \in ModelScores(models[brand]) : modelScore' = m
           ELSE UNCHANGED modelScore
        /\ tensors' = preprocessImage
        /\ apc' = "score"
        /\ UNCHANGED << authResult, firstResult, calls >>
     \/ /\ calls = 0
        /\ apc' = "returned"
        /\ authResult' = AuthenticateThrown
        /\ firstResult' = AuthenticateThrown
        /\ calls' = calls + 1
        /\ UNCHANGED << modelScore, tensors >>
  /\ UNCHANGED << brand, models, features, detectVars, rankVars, marketVars >>

\* The scores, the decision, `batched.dispose()`, identifyModel and the
\* return statement.
Score ==
  /\ apc = "score"
  /\ \E index \in 1..Len(modelMap(brand)) :
       LET r == AuthenticateReturn(features, modelScore,
                                   identifyModel(brand, index))
       IN  /\ authResult' = r
           /\ firstResult' = IF calls = 0 THEN r ELSE firstResult
  /\ tensors' = [tensors EXCEPT !.batched = "disposed"]
  /\ calls' = calls + 1
  /\ apc' = "returned"
  /\ UNCHANGED << brand, models, features, modelScore, detectVars, rankVars, marketVars >>

\* The same item is submitted again.
AuthenticateAgain ==
  /\ apc = "returned"
  /\ ~authResult.threw
  /\ calls < MaxCalls
  /\ apc' = "loadModel"
  /\ tensors' = NoTensors
  /\ UNCHANGED << brand, models, features, modelScore, authResult,
                  firstResult, calls, detectVars, rankVars, marketVars >>

InitAuth ==
  /\ pc = "off"
  /\ DetectIdle
  /\ RankIdle
  /\ apc = "loadModel"
  /\ brand \in AuthBrands
  /\ models = [b \in AuthBrands |-> "none"]
  /\ features = NoFeatures
  /\ modelScore = Zero
  /\ authResult = AuthenticateThrown
  /\ firstResult = AuthenticateThrown
  /\ calls = 0
  /\ tensors = NoTensors
  /\ MarketIdle

NextAuth ==
  \/ LoadModel
  \/ ExtractFeatures
  \/ Predict
  \/ Score
  \/ AuthenticateAgain

SpecAuth == InitAuth /\ [][NextAuth]_vars

\* ---- brand detection and the rankers under one specification
InitBrand == Init \/ InitRank

NextBrand == Next \/ NextRank

SpecBrand == InitBrand /\ [][NextBrand]_vars

\* ---- compareAllMarketplaces, one action per await
\* searchAllMarketplaces, one pass of its loop: the next marketplace is
\* searched and what searchMarketplace returns is stored under its name.
SearchNextMarketplace ==
  /\ mpc = "searchAllMarketplaces"
  /\ Len(marketplaceResults) < Len(marketplaces)
  /\ \E data \in SearchReturns(marketplaces[Len(marketplaceResults) + 1]) :
       marketplaceResults' = Append(marketplaceResults, data)
  /\ UNCHANGED << mpc, condition, marketData, priceComparison, detectVars,
                  rankVars, authVars >>

\* await this.getMarketPrices(brand, model) resolves once every marketplace
\* has been searched.
GetMarketPrices ==
  /\ mpc = "searchAllMarketplaces"
  /\ Len(marketplaceResults) = Len(marketplaces)
  /\ marketData' = getMarketPrices(marketplaceResults)
  /\ mpc' = "compare"
  /\ UNCHANGED << condition, marketplaceResults, priceComparison, detectVars,
                  rankVars, authVars >>

\* The rest of compareAllMarketplaces, to its return.
CompareAllMarketplaces ==
  /\ mpc = "compare"
  /\ priceComparison' = compareAllMarketplaces(marketData, condition)
  /\ mpc' = "returned"
  /\ UNCHANGED << condition, marketplaceResults, marketData, detectVars,
                  rankVars, authVars >>

InitMarket ==
  /\ pc = "off"
  /\ DetectIdle
  /\ RankIdle
  /\ apc = "off"
  /\ AuthIdle
  /\ mpc = "searchAllMarketplaces"
  /\ condition \in Conditions
  /\ marketplaceResults = << >>
  /\ marketData = NoMarketData
  /\ priceComparison = ComparisonCaught(condition)

NextMarket ==
  \/ SearchNextMarketplace
  \/ GetMarketPrices
  \/ CompareAllMarketplaces

SpecMarket == InitMarket /\ [][NextMarket]_vars

\* ======================================================================
\* Properties
\* ======================================================================
\* detectBrand has returned from combineDetectionResults, not from its catch.
Fused == pc = "returned" /\ ~detection.error

Votes == <<logoDetection, colorDetection, patternDetection>>

\* The positions in Votes of the methods whose vote names brand b.
Voters(b) == {i \in 1..3 : Votes[i].brand = b}

\* Left-to-right sum of a sequence of Numbers.
RECURSIVE SumSeq(_, _)
SumSeq(seq, acc) ==
  IF seq = << >> THEN acc ELSE SumSeq(Tail(seq), FAdd(acc, Head(seq)))

\* confidence * weight of each voter of b, in the order logo, colors, patterns.
ScoreTerms(b) ==
  LET term(i) == IF i \in Voters(b)
                 THEN <<FMul(Votes[i].confidence, weights[Methods[i]])>>
                 ELSE << >>
  IN  term(1) \o term(2) \o term(3)

WeightTerms(b) ==
  LET term(i) == IF i \in Voters(b) THEN <<weights[Methods[i]]>> ELSE << >>
  IN  term(1) \o term(2) \o term(3)

\* C1: after fusion every registry brand some method voted for has the
\* aggregated score (sum of confidence x weight over its voters) / (sum of
\* the weights of its voters); a brand nobody voted for has no entry in
\* brandScores and is not the winner.
C1_AggregatedScore ==
  Fused =>
    \A i \in 1..Len(supportedBrands) :
      LET b == supportedBrands[i]
      IN  IF Voters(b) = {}
          THEN ~MapHas(brandScores, b) /\ detection.brand # b
          ELSE /\ MapHas(brandScores, b)
               /\ MapGet(brandScores, b) =
                    FDiv(SumSeq(ScoreTerms(b), Zero), SumSeq(WeightTerms(b), Zero))

\* Logo and patterns agree on Louis Vuitton, colors votes Gucci, Chanel gets
\* no vote: Louis Vuitton wins on the renormalized average of two votes.
C1_Witness ==
  /\ Fused
  /\ Voters("Louis Vuitton") = {1, 3}
  /\ Voters("Gucci") = {2}
  /\ logoDetection.confidence # patternDetection.confidence
  /\ ~MapHas(brandScores, "Chanel")
  /\ detection.brand = "Louis Vuitton"

\* C2: the outcome is true only for a score strictly above the threshold,
\* in brand detection (0.6) and in authentication (0.85); a score equal to
\* the threshold gives false.
C2_StrictThreshold ==
  /\ pc = "returned" =>
       (detection.detected => FGt(detection.confidence, DetectionThreshold))
  /\ (apc = "returned" /\ ~authResult.threw) =>
       (authResult.authentic =>
          FGt(authResult.confidence, authenticityThreshold))

\* No `if` of calculateFeatureScore is taken for these features.
NoFeatureContributes(f) ==
  /\ ~f.logoPresence.present
  /\ ~Truthy(f.stitchingQuality.consistency)
  /\ f.materialTexture.quality # "genuine"
  /\ ~f.craftsmanship.precision
  /\ f.hardwareQuality.quality # "premium"

\* C3: absence of evidence gives a zero result: three votes of Unknown make
\* detectBrand return (Unknown, 0, detected = false), and features none of
\* which contributes make the feature score 0.
C3_NoEvidenceIsZero ==
  /\ (Fused /\ \A i \in 1..3 : Votes[i].brand = Unknown) =>
       /\ detection.brand = Unknown
       /\ detection.confidence = Zero
       /\ ~detection.detected
  /\ (apc = "returned" /\ ~authResult.threw /\ NoFeatureContributes(features))
       => FEq(authResult.featureScore, Zero)

\* C4: for a model score in [0,1] the confidence authenticateItem returns is
\* a finite number in [0,1], whatever the features.
C4_ConfidenceInUnitInterval ==
  (apc = "returned" /\ ~authResult.threw /\ InUnitInterval(modelScore))
    => InUnitInterval(authResult.confidence)

\* C5: every aggregated per-brand score, and the confidence detectBrand
\* returns, lies in [0,1].
C5_AggregatedInUnitInterval ==
  pc = "returned" =>
    /\ \A i \in 1..Len(brandScores) : InUnitInterval(brandScores[i][2])
    /\ InUnitInterval(detection.confidence)

\* All three methods vote for Gucci with confidence 1: the aggregate reaches
\* the upper end of the interval.
C5_Witness ==
  /\ Fused
  /\ Voters("Gucci") = {1, 2, 3}
  /\ \A i \in 1..3 : Votes[i].confidence = One
  /\ MapGet(brandScores, "Gucci") = One

\* Method i is the only one to vote for its brand.
SoleVoter(i) ==
  Votes[i].brand # Unknown /\ Voters(Votes[i].brand) = {i}

\* The confidence of the vote that named the winning brand, for three votes
\* on three different brands.
WinnerOwnScore ==
  Votes[CHOOSE i \in 1..3 : Votes[i].brand = detection.brand].confidence

\* C6 as stated: a brand with a single voter gets exactly that vote's
\* score, and with three votes for three brands the winner is the brand with
\* the highest individual score.
C6_RenormalizationIdentity ==
  Fused =>
    /\ \A i \in 1..3 :
         SoleVoter(i) =>
           MapGet(brandScores, Votes[i].brand) = Votes[i].confidence
    /\ (\A i \in 1..3 : SoleVoter(i)) =>
         \A i \in 1..3 : ~FGt(Votes[i].confidence, WinnerOwnScore)

\* |a - s| <= s * 2^(2 - Precision): a is s up to the rounding of one
\* multiplication and one division.
Close(a, s) ==
  LET diff == a[1] * s[2] - s[1] * a[2]
      abs == IF diff < 0 THEN 0 - diff ELSE diff
  IN  ~IsNaN(a) /\ abs * (2 ^ (Precision - 2)) <= s[1] * a[2]

\* C6 amended: a brand with a single voter gets that vote's score up to
\* rounding, and exactly when the voter is logo (weight 0.5, a power of two);
\* with three votes for three brands no vote exceeds the winner's own vote by
\* more than that rounding.
C6_RenormalizationUpToRounding ==
  Fused =>
    /\ \A i \in 1..3 :
         SoleVoter(i) =>
           /\ Close(MapGet(brandScores, Votes[i].brand), Votes[i].confidence)
           /\ i = 1 =>
                MapGet(brandScores, Votes[i].brand) = Votes[i].confidence
    /\ (\A i \in 1..3 : SoleVoter(i)) =>
         \A i \in 1..3 :
           Votes[i].confidence[1] * WinnerOwnScore[2]
               * (2 ^ (Precision - 2) - 1)
             <= WinnerOwnScore[1] * Votes[i].confidence[2]
                  * (2 ^ (Precision - 2) + 1)

\* Three votes for three brands; the logo vote is reproduced exactly and
\* wins, the patterns vote comes back changed by rounding.
C6_Witness ==
  /\ Fused
  /\ \A i \in 1..3 : SoleVoter(i)
  /\ MapGet(brandScores, logoDetection.brand) = logoDetection.confidence
  /\ MapGet(brandScores, patternDetection.brand) # patternDetection.confidence
  /\ detection.brand = logoDetection.brand

\* The features of f that take part in calculateFeatureScore, each as
\* <<score, weight>>, for features whose craftsmanship does not take part.
FeatureTerms(f) ==
  (IF f.logoPresence.present
   THEN << <<f.logoPresence.quality, Fl(2, 10)>> >> ELSE << >>)
  \o (IF Truthy(f.stitchingQuality.consistency)
      THEN << <<f.stitchingQuality.consistency, Fl(25, 100)>> >> ELSE << >>)
  \o (IF f.materialTexture.quality = "genuine"
      THEN << <<One, Fl(2, 10)>> >> ELSE << >>)
  \o (IF f.hardwareQuality.quality = "premium"
      THEN << <<One, Fl(15, 100)>> >> ELSE << >>)

\* C7: the feature score is (sum of feature score x weight) / (sum of the
\* weights) over the participating features, so one participating feature
\* with score s gives s.
C7_FeatureFusionRenormalized ==
  (/\ apc = "returned"
   /\ ~authResult.threw
   /\ ~features.craftsmanship.precision
   /\ FeatureTerms(features) # << >>)
    => LET terms == FeatureTerms(features)
           products == [i \in 1..Len(terms) |-> FMul(terms[i][1], terms[i][2])]
           wts == [i \in 1..Len(terms) |-> terms[i][2]]
       IN  authResult.featureScore =
             FDiv(SumSeq(products, Zero), SumSeq(wts, Zero))

\* The brands of S that come first in registry order.
FirstInRegistry(S) ==
  CHOOSE b \in S : \A c \in S : RegistryIndex(b) <= RegistryIndex(c)

\* The brands holding the greatest producer score in the ranker under test.
TopScored == {b \in brandPatterns : \A c \in brandPatterns :
                                      ~FGt(scores[c], scores[b])}

\* The brands holding the greatest aggregated score.
TopAggregated ==
  {b \in MapKeys(brandScores) :
     \A c \in MapKeys(brandScores) :
       ~FGt(MapGet(brandScores, c), MapGet(brandScores, b))}

\* C8 as stated: whenever two or more brands share the greatest score, the
\* one first in registry order is returned, in a ranker and in fusion.
C8_TieFirstInRegistry ==
  /\ (rpc = "ranked" /\ Cardinality(TopScored) >= 2) =>
       vote.brand = FirstInRegistry(TopScored)
  /\ (Fused /\ Cardinality(TopAggregated) >= 2) =>
       detection.brand = FirstInRegistry(TopAggregated)

\* C8 amended: whenever two or more brands share the greatest score and that
\* score is above zero, the one first in registry order is returned.
C8_PositiveTieFirstInRegistry ==
  /\ (/\ rpc = "ranked"
      /\ Cardinality(TopScored) >= 2
      /\ \E b \in TopScored : FGt(scores[b], Zero)) =>
       vote.brand = FirstInRegistry(TopScored)
  /\ (/\ Fused
      /\ Cardinality(TopAggregated) >= 2
      /\ \E b \in TopAggregated : FGt(MapGet(brandScores, b), Zero)) =>
       detection.brand = FirstInRegistry(TopAggregated)

\* The method evaluated first (logo) votes Gucci, colors votes Louis Vuitton
\* with the same aggregated score: Louis Vuitton, first in the registry, wins.
C8_Witness ==
  /\ Fused
  /\ logoDetection.brand = "Gucci"
  /\ colorDetection.brand = "Louis Vuitton"
  /\ patternDetection.brand = Unknown
  /\ MapGet(brandScores, "Gucci") = MapGet(brandScores, "Louis Vuitton")
  /\ detection.brand = "Louis Vuitton"

\* C9: a ranker votes for a brand holding the greatest score, with that
\* score, and no brand listed before it in the registry reaches it; when no
\* brand scores above zero it votes (Unknown, 0).
C9_RankerVote ==
  rpc = "ranked" =>
    IF \A b \in brandPatterns : ~FGt(scores[b], Zero)
    THEN vote.brand = Unknown /\ vote.confidence = Zero
    ELSE /\ vote.brand \in brandPatterns
         /\ vote.confidence = scores[vote.brand]
         /\ \A b \in brandPatterns : ~FGt(scores[b], vote.confidence)
         /\ \A b \in brandPatterns :
              RegistryIndex(b) < RegistryIndex(vote.brand) =>
                FGt(vote.confidence, scores[b])

\* Chanel holds the strictly greatest score and is the vote.
C9_Witness ==
  /\ rpc = "ranked"
  /\ vote.brand = "Chanel"
  /\ \A b \in brandPatterns \ {"Chanel"} : FGt(vote.confidence, scores[b])
  /\ \E b \in brandPatterns \ {"Chanel"} : FGt(scores[b], Zero)

\* C10: a second call of authenticateItem with the same features, model
\* score and brand returns the same result, model name included.
C10_Deterministic ==
  (apc = "returned" /\ calls = 2) => authResult = firstResult

\* ---- C11
\* The three votes of the request in one of the orders they can be listed in.
Arrivals ==
  LET v == << logoDetection, colorDetection, patternDetection >>
  IN { << v[p[1]], v[p[2]], v[p[3]] >> :
         p \in { q \in [1..3 -> 1..3] : \A i, j \in 1..3 : q[i] = q[j] => i = j } }

VoteOf(list, method) == list[CHOOSE i \in 1..3 : list[i].method = method]

FuseArrived(list) ==
  combineDetectionResults(VoteOf(list, "logo"), VoteOf(list, "colors"),
                          VoteOf(list, "patterns"))

AllMethods == {Methods[i] : i \in 1..Len(Methods)}

\* C12: fusion runs only on the votes of all three methods.  When detectBrand
\* is about to call combineDetectionResults, and whenever it has returned a
\* fused result, logo, colors and patterns have each reported; when it
\* returned from its catch block instead, nothing was fused: brandScores was
\* never built and the result carries no vote.
C12_FusionAfterAllVotes ==
  /\ pc = "combine" => reported = AllMethods
  /\ Fused => reported = AllMethods
  /\ brandScores # << >> => reported = AllMethods
  /\ (pc = "returned" /\ detection.error) =>
       /\ brandScores = << >>
       /\ detection = DetectBrandCaught
  /\ reported # AllMethods => brandScores = << >>

\* A fused request in which the last method to report decided the result.
C12_Witness ==
  /\ Fused
  /\ reported = AllMethods
  /\ detection.brand = patternDetection.brand
  /\ detection.brand \notin {Unknown, logoDetection.brand, colorDetection.brand}

\* A request that failed before any method ran.
C12_FailedWitness ==
  /\ pc = "returned"
  /\ detection.error
  /\ reported = {}

\* ---- C13
\* C13: a request whose producer never responds still returns: the producer
\* is given up after a bound and detectBrand goes on to a result.
C13_UnresponsiveProducerReturns == (pc = "awaiting") ~> (pc = "returned")

\* With every producer responding the same request does return.
C13_Progress == (pc = "combine") ~> (pc = "returned")

\* ---- C14
Failed == {b \in brandPatterns : outcomes[b] = Thrown}

\* C14: a brand whose producer failed is scored 0 and never voted, every
\* other brand is scored by what its producer computed and the vote is the
\* best of them, and when the producer failed for every brand the vote is
\* (Unknown, 0).
C14_ProducerFailureIsZero ==
  rpc = "ranked" =>
    /\ \A b \in Failed : scores[b] = Zero /\ vote.brand # b
    /\ \A b \in brandPatterns \ Failed :
         /\ scores[b] = outcomes[b]
         /\ ~FGt(outcomes[b], vote.confidence)
    /\ (\E b \in brandPatterns \ Failed : FGt(outcomes[b], Zero)) =>
         /\ vote.brand \in brandPatterns \ Failed
         /\ vote.confidence = outcomes[vote.brand]
    /\ Failed = brandPatterns => (vote.brand = Unknown /\ vote.confidence = Zero)

\* The producer failed for the first registry brand and for another one, and
\* a brand scored after the first failure is voted.
C14_Witness ==
  /\ rpc = "ranked"
  /\ "Louis Vuitton" \in Failed
  /\ "Chanel" \in Failed
  /\ vote.brand = "Hermes"
  /\ FGt(outcomes["Gucci"], Zero)

\* The producer failed for every brand.
C14_AllFailedWitness ==
  /\ rpc = "ranked"
  /\ Failed = brandPatterns
  /\ vote.brand = Unknown

\* ---- C15
\* C15: authenticateItem does not throw to its caller, whichever analysis or
\* preprocessing step failed: every call that ends, ends with a returned
\* record.
C15_FailureNeverThrown == apc = "returned" => ~authResult.threw

\* ---- C16
\* C16: a request that ended without usable evidence and a request whose
\* evidence was evaluated with a negative decision are never answered with
\* the same outcome (status and message) by POST /api/authenticate.
C16_AbsentReportedDistinctly ==
  \A a, n \in reports :
    (a.evidence = "absent" /\ n.evidence = "negative") =>
      << a.status, a.error >> # << n.status, n.error >>

\* ---- C17
\* The vote v with its confidence set to 1 when it names no brand.
Loud(v) == IF v.brand = Unknown THEN [v EXCEPT !.confidence = One] ELSE v

\* C17: 'Unknown' has no aggregated score, the brands that have one are
\* exactly the brands the votes name, a vote of 'Unknown' adds to no brand's
\* sums (the aggregated scores are the same whatever confidence such a vote
\* carries), and 'Unknown' is returned only when no brand has a positive
\* aggregated score.
C17_UnknownVoteContributesNothing ==
  Fused =>
    /\ ~MapHas(brandScores, Unknown)
    /\ MapKeys(brandScores) = {Votes[i].brand : i \in 1..3} \ {Unknown}
    /\ brandScores = BrandScores(Loud(logoDetection), Loud(colorDetection),
                                 Loud(patternDetection))
    /\ detection.brand = Unknown =>
         \A i \in 1..Len(brandScores) : ~FGt(brandScores[i][2], Zero)
    /\ detection.brand # Unknown => MapHas(brandScores, detection.brand)

\* Two methods vote 'Unknown' and the third names the brand returned.
C17_Witness ==
  /\ Fused
  /\ logoDetection.brand = Unknown
  /\ patternDetection.brand = Unknown
  /\ colorDetection.brand # Unknown
  /\ detection.brand = colorDetection.brand
  /\ Len(brandScores) = 1

\* All three methods vote 'Unknown'.
C17_AllUnknownWitness ==
  /\ Fused
  /\ \A i \in 1..3 : Votes[i].brand = Unknown
  /\ detection.brand = Unknown
  /\ brandScores = << >>

\* ---- C18
\* C18: handling a request writes no state shared between requests: the
\* model cache LuxuryMatcher.models is the same after every step of
\* authenticateItem as before it.
C18_SharedStateUnchanged == [][models' = models]_vars

\* ---- C19
\* The configuration the engine runs with is the literal one of the source:
\* every weight is positive, the weights name exactly the three methods whose
\* votes are passed to combineDetectionResults, and the registry is not
\* empty.  No request meets an invalid configuration.
C19_ConfigurationValid ==
  /\ \A m \in DOMAIN weights : FGt(weights[m], Zero)
  /\ DOMAIN weights = {Votes[i].method : i \in 1..3}
  /\ Len(supportedBrands) > 0

\* ---- C20
\* The order the claim fixes: logo, stitching, craftsmanship, hardware,
\* concerns.
ReasonOrder ==
  << "High-quality logo detected",
     "Consistent, professional stitching",
     "Precise craftsmanship and symmetry",
     "Premium hardware quality",
     "Multiple authenticity concerns detected" >>

ReasonRank(reason) == CHOOSE k \in 1..Len(ReasonOrder) : ReasonOrder[k] = reason

Returned == apc = "returned" /\ ~authResult.threw

\* C20: the reasons of a returned record are entries of the fixed list in
\* its order, each at most once; the stitching reason is among them exactly
\* when the stitching consistency is strictly above 0.7; and a later call
\* for the same item returns the same list.
C20_ReasonsFixedOrder ==
  Returned =>
    LET reasons == authResult.reasons
    IN  /\ \A i \in 1..Len(reasons) :
             \E k \in 1..Len(ReasonOrder) : ReasonOrder[k] = reasons[i]
        /\ \A i, j \in 1..Len(reasons) :
             i < j => ReasonRank(reasons[i]) < ReasonRank(reasons[j])
        /\ (\E i \in 1..Len(reasons) : reasons[i] = ReasonOrder[2])
             <=> FGt(features.stitchingQuality.consistency, Fl(7, 10))
        /\ reasons = firstResult.reasons

\* A second call returned the logo, stitching, hardware and concerns reasons.
C20_Witness ==
  /\ Returned
  /\ calls = 2
  /\ FGt(features.stitchingQuality.consistency, Fl(7, 10))
  /\ authResult.reasons =
       << ReasonOrder[1], ReasonOrder[2], ReasonOrder[4], ReasonOrder[5] >>

\* Stitching consistency equal to 0.7: no stitching reason.
C20_ThresholdWitness ==
  /\ Returned
  /\ features.stitchingQuality.consistency = Fl(7, 10)
  /\ authResult.reasons = << ReasonOrder[1], ReasonOrder[4], ReasonOrder[5] >>

\* ---- C21
HandlerCalls == << "detectBrand", "authenticateItem", "getMarketPrices" >>

\* C21: the handler calls detectBrand, authenticateItem and getMarketPrices
\* in that order, the last two only after detectBrand returned with detected
\* true; a request without a file or without a detected brand is answered 400
\* with neither of the two called; and a request is answered once, when its
\* handler ends, and not before.
C21_HandlerOrder ==
  /\ Len(invoked) <= Len(HandlerCalls)
  /\ invoked = SubSeq(HandlerCalls, 1, Len(invoked))
  /\ Len(invoked) >= 2 =>
       /\ pc \in {"authenticateItem", "getMarketPrices", "responded"}
       /\ ~detection.error
       /\ detection.detected
  /\ responses <= 1
  /\ pc = "responded" <=> responses = 1
  /\ (pc = "responded" /\ (invoked = << >> \/ ~detection.detected)) =>
       /\ response.status = 400
       /\ Len(invoked) <= 1
  /\ (pc = "responded" /\ response.status = 400) => Len(invoked) <= 1

\* A request answered 200 after all three calls.
C21_Witness ==
  /\ pc = "responded"
  /\ response.status = 200
  /\ invoked = HandlerCalls
  /\ responses = 1

\* A request answered 400 for an undetected brand with a positive confidence.
C21_UndetectedWitness ==
  /\ pc = "responded"
  /\ response.status = 400
  /\ invoked = << "detectBrand" >>
  /\ FGt(response.confidence, Zero)

\* ---- C22
RegistryBrands == {supportedBrands[i] : i \in 1..Len(supportedBrands)}

\* C22: in every result of detectBrand, detected implies a confidence
\* strictly above 0.6 and a brand of the registry, and the brand 'Unknown'
\* implies confidence 0 and detected false.
C22_DetectionResult ==
  pc = "returned" =>
    /\ detection.detected =>
         /\ FGt(detection.confidence, DetectionThreshold)
         /\ detection.brand \in RegistryBrands
         /\ detection.brand # Unknown
    /\ detection.brand = Unknown =>
         /\ detection.confidence = Zero
         /\ ~detection.detected
    /\ detection.brand \in RegistryBrands \cup {Unknown}

\* A fused result with a detected brand.
C22_Witness ==
  /\ Fused
  /\ detection.detected
  /\ detection.brand = "Hermes"

\* A fused result whose confidence equals the threshold: not detected.
C22_ThresholdWitness ==
  /\ Fused
  /\ detection.confidence = DetectionThreshold
  /\ ~detection.detected
  /\ detection.brand # Unknown

\* ---- C23
\* C23: a ranker scores every brand of the registry: when it returns, its
\* results Map has an entry for each of the twelve supportedBrands.
C23_EveryRegistryBrandScored ==
  rpc = "ranked" => \A b \in RegistryBrands : MapHas(rankerResults, b)

\* What the rankers do score: exactly the brands with registered patterns.
C23_ScoredBrands ==
  rpc = "ranked" => MapKeys(rankerResults) = brandPatterns

\* No result of detectBrand names a registry brand without patterns.
C23_ReportedBrands ==
  pc = "returned" => detection.brand \in brandPatterns \cup {Unknown}

\* ---- C24
\* C24: when authenticateItem returns or throws, each tensor its
\* preprocessImage call allocated has been disposed: none is still live.
C24_TensorsBalanced ==
  apc = "returned" =>
    \A t \in DOMAIN tensors : tensors[t] \in {"unallocated", "disposed"}

\* What authenticateItem does dispose: the batched tensor, once, on its
\* normal path.
C24_BatchedDisposed == Returned => tensors.batched = "disposed"

\* ---- C25
\* The items a price comparison is about: the priced items of the searches
\* that succeeded, and those among them of the requested condition.
PricedItems == aggregateMarketData(marketplaceResults).items

MatchingItems ==
  IF condition = "all"
  THEN PricedItems
  ELSE SelectSeq(PricedItems,
         LAMBDA item : toLowerCase(item.condition) = condition)

\* C25: whenever getMarketPrices succeeded with priced items, what
\* compareAllMarketplaces returns has no error field, its totalItems is the
\* number of items of the requested condition, and each of them is listed
\* under its marketplace.
C25_ComparesPricedItems ==
  (mpc = "returned" /\ "error" \notin DOMAIN marketData
                    /\ marketData.prices # << >>) =>
    /\ "error" \notin DOMAIN priceComparison
    /\ priceComparison.totalItems = Len(MatchingItems)
    /\ \A i \in 1..Len(MatchingItems) :
         /\ MapHas(priceComparison.comparison, MatchingItems[i].marketplace)
         /\ \E k \in 1..Len(MapGet(priceComparison.comparison,
                                   MatchingItems[i].marketplace).items) :
              MapGet(priceComparison.comparison,
                     MatchingItems[i].marketplace).items[k] = MatchingItems[i]

\* What compareAllMarketplaces does return, whatever the searches found:
\* the result of its catch block, with an error and an empty comparison.
C25_AlwaysCaught ==
  mpc = "returned" => priceComparison = ComparisonCaught(condition)

\* The case of the claim is reached: priced items of the requested
\* condition were found, one search failed, and the comparison returned.
C25_PricedItemsCompared ==
  /\ mpc = "returned"
  /\ marketData.prices # << >>
  /\ MatchingItems # << >>
  /\ \E i \in 1..Len(marketplaceResults) :
       "error" \in DOMAIN marketplaceResults[i]

\* A failed search removes no other marketplace's prices from what
\* getMarketPrices returns.
C25_FailureKeepsOtherPrices ==
  mpc = "compare" =>
    \A i \in 1..Len(marketplaceResults) :
      \A k \in 1..Len(marketplaceResults[i].results) :
        \E j \in 1..Len(marketData.prices) :
          marketData.prices[j] = marketplaceResults[i].results[k].price

====
